---- MODULE Spec2Model ----
(***************************************************************************)
(* Schema extraction of sveltekit-api-fetch: getSchemaFromFunction         *)
(* (getSchema, getReturnType), parseSchema with getZodTypeToString, and    *)
(* generateUrlType.  Syntax nodes and types are records with a "kind"; the *)
(* TypeScript checker is an oracle whose answers are symbolic.             *)
(***************************************************************************)
EXTENDS Integers, Sequences, FiniteSets, TLC

VARIABLES
    pc,            \* position of the running function
    func,          \* getSchemaFromFunction: the ts.SignatureDeclaration analysed
    i,             \* index of the next child handed to a forEachChild / map callback
    schema,        \* value returned by getSchema
    returnType,    \* getReturnType: `let returnType`
    descriptor,    \* value returned by getSchemaFromFunction, `data` of parseSchema
    skipBody,      \* parseSchema: its parameter
    properties,    \* what the checker knows of the schema node's type: its property symbols
    zodInputType,  \* parseSchema: `const zodInputType`
    mapped,        \* parseSchema: the array built by .map() over the properties
    body,          \* parseSchema: `const body`
    searchParams,  \* parseSchema: `let searchParams`
    parsed,        \* value returned by parseSchema
    thrown,        \* the exception in flight, "none" when there is none
    zarg,          \* getZodTypeToString: the type of the outermost call
    ztype,         \* getZodTypeToString: `type` of the running call
    zstack,        \* getZodTypeToString: the calls waiting for a recursive call
    zresult,       \* getZodTypeToString: the value last returned
    zreturn,       \* the caller getZodTypeToString returns to
    fields,        \* generateUrlType: its parameter, in Object.entries order
    entries,       \* generateUrlType: `const entries`
    urlType        \* value returned by generateUrlType

funcVars == <<func, schema, returnType>>
parseVars == <<skipBody, properties, zodInputType, mapped, body, searchParams, parsed>>
zodVars == <<zarg, ztype, zstack, zresult, zreturn>>
urlVars == <<fields, entries, urlType>>
vars == <<pc, i, descriptor, thrown, funcVars, parseVars, zodVars, urlVars>>

----------------------------------------------------------------------------
(* Bounds of the model *)

\* a function body holds at most MaxNodes statements and bindings in total
MaxNodes == 3
\* a call expression has at most MaxArgs arguments
MaxArgs == 2
\* type arguments nest at most MaxDepth deep in a type handed to getZodTypeToString
MaxDepth == 2
\* the schema's type has at most MaxProps properties
MaxProps == 2
\* generateUrlType is handed at most MaxFields fields
MaxFields == 3

----------------------------------------------------------------------------
(* JavaScript values *)

Undefined == [kind |-> "undefined"]

\* seq[idx] of a JavaScript array: 0-based, undefined out of range
At(seq, idx) == IF idx + 1 \in DOMAIN seq THEN seq[idx + 1] ELSE Undefined

----------------------------------------------------------------------------
(* Syntax trees.  An argument node is identified by its place in the body:  *)
(* <<statement, binding (0 in a return or expression statement), argument>> *)

Arguments(s, d, n) == [a \in 1..n |-> [kind |-> "Identifier", pos |-> <<s, d, a>>]]

CallExpression(text, s, d, n) ==
    [kind |-> "CallExpression",
     expression |-> [kind |-> "Identifier", text |-> text],
     arguments |-> Arguments(s, d, n)]

AwaitExpression(e) == [kind |-> "AwaitExpression", expression |-> e]

PlainIdentifier == [kind |-> "Identifier", text |-> "value"]

\* A body is written down node by node: a return statement, an expression statement,
\* or a binding, which opens a variable statement (first) or joins the one before it.
\* what: "none" (no expression, no initializer), "value" (no call), "call", "json",
\* "other" (calls), "awaitValue", "awaitCall"; args: the number of arguments of a call
Written(node, what, args, first) ==
    [node |-> node, what |-> what, args |-> args, first |-> first]

\* `return;`, `return value`, `return json(...)`, `return other(...)`
WrittenReturns ==
    {Written("return", w, 0, TRUE) : w \in {"none", "value"}}
        \cup {Written("return", w, n, TRUE) : w \in {"json", "other"}, n \in 0..1}

WrittenExpressions == {Written("expression", "call", MaxArgs, TRUE)}

\* the initializers of a binding: none, a call that is not awaited, an awaited
\* non-call, an awaited call with 0..MaxArgs arguments
WrittenBindings ==
    {Written("binding", w, 0, f) : w \in {"none", "awaitValue"}, f \in BOOLEAN}
        \cup {Written("binding", "call", MaxArgs, f) : f \in BOOLEAN}
        \cup {Written("binding", "awaitCall", n, f) : n \in 0..MaxArgs, f \in BOOLEAN}

WrittenNodes == WrittenReturns \cup WrittenExpressions \cup WrittenBindings

\* a binding joins the binding written just before it
WellWritten(text) ==
    \A k \in DOMAIN text :
        (text[k].node = "binding" /\ ~text[k].first)
            => (k > 1 /\ text[k - 1].node = "binding")

\* the expression written at statement s, binding d
ExpressionOf(w, s, d) ==
    CASE w.what = "none" -> Undefined
      [] w.what = "value" -> PlainIdentifier
      [] w.what = "awaitValue" -> AwaitExpression(PlainIdentifier)
      [] w.what = "awaitCall" -> AwaitExpression(CallExpression("call", s, d, w.args))
      [] OTHER -> CallExpression(w.what, s, d, w.args)

\* the number of bindings that join the binding written at k
RECURSIVE Joined(_, _)
Joined(text, k) ==
    IF k + 1 \in DOMAIN text /\ text[k + 1].node = "binding" /\ ~text[k + 1].first
    THEN 1 + Joined(text, k + 1)
    ELSE 0

VariableStatement(text, k, s) ==
    [kind |-> "VariableStatement",
     declarationList |->
         [d \in 1..(1 + Joined(text, k)) |->
             [kind |-> "VariableDeclaration",
              initializer |-> ExpressionOf(text[k + d - 1], s, d)]]]

ReturnStatement(w, s) == [kind |-> "ReturnStatement", expression |-> ExpressionOf(w, s, 0)]

ExpressionStatement(w, s) ==
    [kind |-> "ExpressionStatement", expression |-> ExpressionOf(w, s, 0)]

\* the statements written from node k on, the first of them being statement s
RECURSIVE StatementsFrom(_, _, _)
StatementsFrom(text, k, s) ==
    IF k > Len(text) THEN <<>>
    ELSE IF text[k].node = "binding"
    THEN <<VariableStatement(text, k, s)>>
             \o StatementsFrom(text, k + 1 + Joined(text, k), s + 1)
    ELSE IF text[k].node = "return"
    THEN <<ReturnStatement(text[k], s)>> \o StatementsFrom(text, k + 1, s + 1)
    ELSE <<ExpressionStatement(text[k], s)>> \o StatementsFrom(text, k + 1, s + 1)

Block(text) == [kind |-> "Block", statements |-> StatementsFrom(text, 1, 1)]

\* a function with a block body
FunctionOf(text) == [kind |-> "Function", body |-> Block(text)]

\* an arrow function whose body is an expression
ArrowFunction == [kind |-> "Function", body |-> PlainIdentifier]

\* the children ts.forEachChild hands to the callback, in order
ChildrenOf(node) ==
    CASE node.kind = "Function" -> <<node.body>>
      [] node.kind = "Block" -> node.statements
      [] OTHER -> <<>>

----------------------------------------------------------------------------
(* The checker's answers *)

getTypeAtLocation(node) == [kind |-> "typeAt", pos |-> node.pos]
getAnyType == [kind |-> "any"]
getVoidType == [kind |-> "void"]

----------------------------------------------------------------------------
(* getSchema *)

\* getSchemaDeclaration returning the first argument instead of the second
getSchemaDeclarationFirstArgument(declaration) ==
    IF /\ declaration.kind = "VariableDeclaration"
       /\ declaration.initializer # Undefined
       /\ declaration.initializer.kind = "AwaitExpression"
       /\ declaration.initializer.expression.kind = "CallExpression"
    THEN At(declaration.initializer.expression.arguments, 0)
    ELSE Undefined

\* the callback of the innermost forEachChild, on one binding
getSchemaDeclaration(declaration) ==
    IF /\ declaration.kind = "VariableDeclaration"
       /\ declaration.initializer # Undefined
       /\ declaration.initializer.kind = "AwaitExpression"
       /\ declaration.initializer.expression.kind = "CallExpression"
    THEN At(declaration.initializer.expression.arguments, 1)
    ELSE Undefined

\* forEachDeclaration looking at the first binding only
forEachDeclarationHeadOnly(declarations) ==
    IF declarations = <<>> THEN Undefined
    ELSE getSchemaDeclaration(Head(declarations))

\* ts.forEachChild(node.declarationList, cb): the first truthy value cb returns
RECURSIVE forEachDeclaration(_)
forEachDeclaration(declarations) ==
    IF declarations = <<>> THEN Undefined
    ELSE IF getSchemaDeclaration(Head(declarations)) # Undefined
         THEN getSchemaDeclaration(Head(declarations))
         ELSE forEachDeclaration(Tail(declarations))

\* the callback of the forEachChild over the block, on one statement
getSchemaStatement(node) ==
    IF node.kind = "VariableStatement"
    THEN forEachDeclaration(node.declarationList)
    ELSE Undefined

\* the block whose children are scanned: forEachChild(func, ...) acts on Block children only
BodyStatements ==
    IF func.body.kind = "Block" THEN ChildrenOf(func.body) ELSE <<>>

\* getSchemaVisit ending the scan at the statement it visits, whatever it yields
getSchemaVisitFirstOnly ==
    /\ pc = "getSchema"
    /\ i <= Len(BodyStatements)
    /\ schema' = getSchemaStatement(BodyStatements[i])
    /\ pc' = "getReturnType"
    /\ i' = 1
    /\ UNCHANGED <<func, returnType, descriptor, thrown, parseVars, zodVars, urlVars>>

\* one call of the statement callback; forEachChild stops at a truthy value
getSchemaVisit ==
    /\ pc = "getSchema"
    /\ i <= Len(BodyStatements)
    /\ IF getSchemaStatement(BodyStatements[i]) # Undefined
       THEN /\ schema' = getSchemaStatement(BodyStatements[i])
            /\ pc' = "getReturnType"
            /\ i' = 1
       ELSE /\ i' = i + 1
            /\ UNCHANGED <<schema, pc>>
    /\ UNCHANGED <<func, returnType, descriptor, thrown, parseVars, zodVars, urlVars>>

\* forEachChild ran out of children: getSchema returns undefined
getSchemaExhausted ==
    /\ pc = "getSchema"
    /\ i > Len(BodyStatements)
    /\ schema' = Undefined
    /\ pc' = "getReturnType"
    /\ i' = 1
    /\ UNCHANGED <<func, returnType, descriptor, thrown, parseVars, zodVars, urlVars>>

----------------------------------------------------------------------------
(* getReturnType *)

\* getReturnTypeCallback without the test of the callee's text
getReturnTypeCallbackAnyCallee(child, current) ==
    IF child.kind = "ReturnStatement" /\ child.expression # Undefined
    THEN LET fromCall ==
                 IF /\ child.expression.kind = "CallExpression"
                    /\ At(child.expression.arguments, 0) # Undefined
                 THEN getTypeAtLocation(At(child.expression.arguments, 0))
                 ELSE current
         IN IF fromCall = Undefined THEN getAnyType ELSE fromCall
    ELSE current

\* the value the callback leaves in returnType after visiting child
getReturnTypeCallback(child, current) ==
    IF child.kind = "ReturnStatement" /\ child.expression # Undefined
    THEN LET fromJson ==
                 IF /\ child.expression.kind = "CallExpression"
                    /\ child.expression.expression.text = "json"
                    /\ At(child.expression.arguments, 0) # Undefined
                 THEN getTypeAtLocation(At(child.expression.arguments, 0))
                 ELSE current
         IN IF fromJson = Undefined THEN getAnyType ELSE fromJson
    ELSE current

\* one call of the statement callback; it returns nothing, so the scan goes on
getReturnTypeVisit ==
    /\ pc = "getReturnType"
    /\ i <= Len(BodyStatements)
    /\ returnType' = getReturnTypeCallback(BodyStatements[i], returnType)
    /\ i' = i + 1
    /\ UNCHANGED <<pc, func, schema, descriptor, thrown, parseVars, zodVars, urlVars>>

\* `return returnType ?? typeChecker.getVoidType()`
getReturnTypeResult(current) == IF current = Undefined THEN getVoidType ELSE current

\* getReturnType returns and getSchemaFromFunction builds its record
getSchemaFromFunctionReturn ==
    /\ pc = "getReturnType"
    /\ i > Len(BodyStatements)
    /\ descriptor' = [schema |-> schema, returnType |-> getReturnTypeResult(returnType)]
    /\ pc' = "done"
    /\ UNCHANGED <<i, funcVars, thrown, parseVars, zodVars, urlVars>>

----------------------------------------------------------------------------
(* getSchemaFromFunction on every function of the bounded set *)

\* the variables of the functions that are not running
IdleFunc == func = Undefined /\ schema = Undefined /\ returnType = Undefined

IdleParse ==
    /\ skipBody = FALSE
    /\ properties = <<>>
    /\ zodInputType = Undefined
    /\ mapped = <<>>
    /\ body = Undefined
    /\ searchParams = Undefined
    /\ parsed = Undefined

IdleZod ==
    /\ zarg = Undefined
    /\ ztype = Undefined
    /\ zstack = <<>>
    /\ zresult = ""
    /\ zreturn = "none"

IdleUrl == fields = <<>> /\ entries = <<>> /\ urlType = Undefined

InitFunc ==
    /\ \/ func = ArrowFunction
       \/ \E n \in 0..MaxNodes : \E text \in [1..n -> WrittenNodes] :
              WellWritten(text) /\ func = FunctionOf(text)
    /\ pc = "getSchema"
    /\ i = 1
    /\ schema = Undefined
    /\ returnType = Undefined
    /\ descriptor = Undefined
    /\ thrown = "none"
    /\ IdleParse /\ IdleZod /\ IdleUrl

NextFunc ==
    \/ getSchemaVisit
    \/ getSchemaExhausted
    \/ getReturnTypeVisit
    \/ getSchemaFromFunctionReturn

SpecFunc == InitFunc /\ [][NextFunc]_vars

----------------------------------------------------------------------------
(* Properties of getSchemaFromFunction *)

Done == pc = "done"

IsAwaitedCall(declaration) ==
    /\ declaration.initializer # Undefined
    /\ declaration.initializer.kind = "AwaitExpression"
    /\ declaration.initializer.expression.kind = "CallExpression"

HasSecondArgument(declaration) ==
    /\ IsAwaitedCall(declaration)
    /\ Len(declaration.initializer.expression.arguments) >= 2

Bindings(statement) ==
    IF statement.kind = "VariableStatement" THEN statement.declarationList ELSE <<>>

\* the places <<statement, binding>> of the awaited calls that have a second argument
SchemaPlaces ==
    {p \in (DOMAIN BodyStatements) \X (1..MaxNodes + 1) :
        /\ p[2] \in DOMAIN Bindings(BodyStatements[p[1]])
        /\ HasSecondArgument(Bindings(BodyStatements[p[1]])[p[2]])}

Before(p, q) == p[1] < q[1] \/ (p[1] = q[1] /\ p[2] <= q[2])

FirstSchemaPlace == CHOOSE p \in SchemaPlaces : \A q \in SchemaPlaces : Before(p, q)

SecondArgumentNode(p) == [kind |-> "Identifier", pos |-> <<p[1], p[2], 2>>]

\* the first awaited call with a second argument, in statement then binding order
FirstSchemaArgument ==
    IF SchemaPlaces = {} THEN Undefined ELSE SecondArgumentNode(FirstSchemaPlace)

FirstStatementHasSchema == \E p \in SchemaPlaces : p[1] = 1

\* C1: when the first statement of the body is a variable statement with a binding
\* initialised by an awaited call of at least two arguments, the schema returned by
\* getSchemaFromFunction is the node of the second argument of that call (of the first
\* such binding of the statement).
C1_FirstStatementSchema ==
    (Done /\ FirstStatementHasSchema)
        => /\ descriptor.schema = SecondArgumentNode(FirstSchemaPlace)
           /\ FirstSchemaPlace[1] = 1

C1_Witness ==
    /\ Done
    /\ FirstStatementHasSchema
    /\ Len(BodyStatements) >= 2
    /\ descriptor.schema = SecondArgumentNode(<<1, 1>>)

\* the first statement is not a variable statement that binds an awaited call
FirstStatementBindsNoAwaitedCall ==
    /\ Len(BodyStatements) >= 1
    /\ \A d \in DOMAIN Bindings(BodyStatements[1]) :
           ~IsAwaitedCall(Bindings(BodyStatements[1])[d])

\* C2 as stated: when the first statement is not a variable statement binding an
\* awaited call, getSchema returns absent, whatever the later statements are.
C2_AsStated ==
    (Done /\ FirstStatementBindsNoAwaitedCall) => descriptor.schema = Undefined

\* C2 amended: when the first statement is not a variable statement binding an
\* awaited call, the scan goes on to the later statements: getSchema returns the second
\* argument of the first awaited call that has one, and absent only when no direct
\* statement of the body binds such a call.
C2_ScanContinues ==
    (Done /\ FirstStatementBindsNoAwaitedCall) => descriptor.schema = FirstSchemaArgument

C2_Witness ==
    /\ Done
    /\ FirstStatementBindsNoAwaitedCall
    /\ BodyStatements[1].kind = "ExpressionStatement"
    /\ descriptor.schema = SecondArgumentNode(<<2, 1>>)

ReturnPlaces == {s \in DOMAIN BodyStatements : BodyStatements[s].kind = "ReturnStatement"}

ReturnsWithExpression == {s \in ReturnPlaces : BodyStatements[s].expression # Undefined}

IsJsonCall(e) ==
    /\ e.kind = "CallExpression"
    /\ e.expression.text = "json"
    /\ Len(e.arguments) >= 1

\* what one return statement decides on its own
DecidedBy(s) ==
    IF IsJsonCall(BodyStatements[s].expression)
    THEN [kind |-> "typeAt", pos |-> <<s, 0, 1>>]
    ELSE getAnyType

\* C3: with at most one direct return statement, getReturnType gives the type of v for
\* `return json(v)`, the any type for a return of any other expression, the void type
\* when no return statement carries an expression; it is never absent.
C3_SingleReturn ==
    Done =>
        /\ descriptor.returnType # Undefined
        /\ Cardinality(ReturnPlaces) <= 1 =>
               /\ \A s \in ReturnsWithExpression : descriptor.returnType = DecidedBy(s)
               /\ ReturnsWithExpression = {} => descriptor.returnType = getVoidType

C3_Witness ==
    /\ Done
    /\ Cardinality(ReturnPlaces) = 1
    /\ \E s \in ReturnsWithExpression :
           /\ IsJsonCall(BodyStatements[s].expression)
           /\ descriptor.returnType = [kind |-> "typeAt", pos |-> <<s, 0, 1>>]

\* the first variable statement of the body, 0 when there is none
FirstVariableStatement ==
    IF \E s \in DOMAIN BodyStatements : BodyStatements[s].kind = "VariableStatement"
    THEN CHOOSE s \in DOMAIN BodyStatements :
             /\ BodyStatements[s].kind = "VariableStatement"
             /\ \A r \in 1..(s - 1) : BodyStatements[r].kind # "VariableStatement"
    ELSE 0

AwaitedCallsOf(s) ==
    {d \in DOMAIN Bindings(BodyStatements[s]) : IsAwaitedCall(Bindings(BodyStatements[s])[d])}

\* the first variable statement binds no awaited call, or the first awaited call it
\* binds has no second argument
FirstVariableStatementYieldsNothing ==
    /\ FirstVariableStatement # 0
    /\ \/ AwaitedCallsOf(FirstVariableStatement) = {}
       \/ \E d \in AwaitedCallsOf(FirstVariableStatement) :
              /\ \A e \in AwaitedCallsOf(FirstVariableStatement) : d <= e
              /\ ~HasSecondArgument(Bindings(BodyStatements[FirstVariableStatement])[d])

\* C9 as stated: when the first variable statement binds no awaited call, or its first
\* awaited call lacks a second argument, getSchema returns absent and scans no later
\* binding or statement.
C9_AsStated ==
    (Done /\ FirstVariableStatementYieldsNothing) => descriptor.schema = Undefined

\* C9 amended: getSchema stops only at a binding initialised by an awaited call that
\* has a second argument.  A variable statement without such a binding and an awaited
\* call without a second argument do not stop the scan: the later bindings and
\* statements are scanned, the result is the second argument of the first awaited call
\* that has one, and no statement after that one is visited.
C9_StopsAtFirstSchema ==
    /\ (Done /\ FirstVariableStatementYieldsNothing)
           => descriptor.schema = FirstSchemaArgument
    /\ pc = "getSchema" => \A p \in SchemaPlaces : i <= p[1]

C9_Witness ==
    /\ Done
    /\ FirstVariableStatementYieldsNothing
    /\ AwaitedCallsOf(FirstVariableStatement) # {}
    /\ descriptor.schema # Undefined
    /\ descriptor.schema.pos[1] = FirstVariableStatement

\* C10: with several direct return statements carrying an expression, the last one
\* alone decides the result: the type of v when it is `return json(v)`, the any type
\* when it is not a json call with a first argument.
C10_LastReturnWins ==
    (Done /\ Cardinality(ReturnsWithExpression) >= 2)
        => \E s \in ReturnsWithExpression :
               /\ \A r \in ReturnsWithExpression : r <= s
               /\ descriptor.returnType = DecidedBy(s)

----------------------------------------------------------------------------
(* Types as the checker shows them.  Only a type reference has type         *)
(* arguments and only a class or interface has base types; both are object  *)
(* types.                                                                   *)

\* `zodArguments.length === 5`
ObjectArity == 5
\* `zodArguments.length === 2`
ArrayArity == 2

Type(text, isObject, baseTypes, typeArguments) ==
    [kind |-> "type", text |-> text, isObject |-> isObject,
     baseTypes |-> baseTypes, typeArguments |-> typeArguments]

\* what typeToString prints for the types that stand at a fixed place
PlaceTexts == <<"T1", "T2", "T3", "T4", "T5", "T6", "T7", "T8">>

Texts == {"", "string"}

\* an object type with no base type and no type argument
Plain(text) == Type(text, TRUE, Undefined, <<>>)

\* a primitive type: not an object type
Primitive == Type("number", FALSE, Undefined, <<>>)

\* a base type ZodType<...> with n type arguments, the third printed as text
BaseType(n, text) ==
    Type("ZodType", TRUE, Undefined,
         [a \in 1..n |-> Plain(IF a = 3 THEN text ELSE PlaceTexts[a])])

\* a class or interface whose getBaseTypes() gives the array bases
Class(bases, typeArguments) ==
    Type("Class", TRUE, [kind |-> "array", items |-> bases], typeArguments)

\* a type reference with n type arguments, the first being first, the last printed as text
Reference(n, first, text) ==
    Type("Reference", TRUE, Undefined,
         [a \in 1..n |-> IF a = 1 THEN first
                         ELSE Plain(IF a = n THEN text ELSE PlaceTexts[a])])

StringSchema == Class(<<BaseType(3, "string")>>, <<>>)

FlatTypes ==
    {Class(<<BaseType(3, t)>>, <<>>) : t \in Texts}
        \cup {Class(<<BaseType(2, "T3")>>, <<>>),
              Class(<<BaseType(3, "number"), BaseType(3, "string")>>, <<>>),
              Class(<<BaseType(3, "boolean")>>, Reference(ObjectArity, Plain("T1"), "T5").typeArguments),
              Plain("{}"),
              Class(<<>>, <<>>),
              Primitive}
        \cup {Reference(ObjectArity, Plain("T1"), t) : t \in Texts}

\* the numbers of type arguments of the references that wrap another type
WrapperArities == {1, ArrayArity, ArrayArity + 1, ObjectArity + 1}

RECURSIVE Types(_)
Types(depth) ==
    IF depth = 0 THEN FlatTypes
    ELSE FlatTypes \cup {Reference(n, first, PlaceTexts[n]) :
                            n \in WrapperArities, first \in Types(depth - 1)}

----------------------------------------------------------------------------
(* The checker's answers on types *)

\* type.getBaseTypes()
getBaseTypes(type) == type.baseTypes

\* typeChecker.getTypeArguments(type)
getTypeArguments(type) == type.typeArguments

Str(text) == [kind |-> "string", text |-> text]
Throw == [kind |-> "throw"]

TextOf(type) ==
    CASE type.kind = "any" -> "any"
      [] type.kind = "void" -> "void"
      [] type.kind = "typeAt" -> "Inferred"
      [] OTHER -> type.text

\* typeChecker.typeToString(type): the text of a type; on an absent type the checker
\* is used outside its contract, and may print something or raise
typeToString(type) ==
    IF type = Undefined THEN {Str("any"), Throw} ELSE {Str(TextOf(type))}

----------------------------------------------------------------------------
(* getZodTypeToString.  zstack holds, innermost first, the calls that wait  *)
(* for their recursive call: "array" appends "[]", "other" returns as is.   *)

\* `type.getBaseTypes()?.[0]`
FirstBaseType(type) ==
    IF getBaseTypes(type) = Undefined THEN Undefined ELSE At(getBaseTypes(type).items, 0)

\* ZodDispatch without the zodArray fallback
ZodDispatchNoArray(type) ==
    IF Len(getTypeArguments(type)) = ObjectArity THEN "object" ELSE "other"

\* what the call does when no base type is declared
ZodDispatch(type) ==
    IF Len(getTypeArguments(type)) = ObjectArity THEN "object"
    ELSE IF Len(getTypeArguments(type)) = ArrayArity THEN "array"
    ELSE "other"

\* the type argument the base-type branch prints
BaseOutput(zodType) == At(getTypeArguments(zodType), 2)

\* the type argument the zodObject fallback prints
ObjectOutput(type) == At(getTypeArguments(type), 4)

\* the type argument the recursive calls are made on
RecursiveArgument(type) == At(getTypeArguments(type), 0)

\* what a waiting call returns, given the value of its recursive call
AfterRecursion(frame, value) == IF frame = "array" THEN value \o "[]" ELSE value

\* `type.getBaseTypes()` on an absent type: a TypeError
getZodTypeToStringThrow ==
    /\ pc = "getZodTypeToString"
    /\ ztype = Undefined
    /\ thrown' = "TypeError"
    /\ pc' = "thrown"
    /\ UNCHANGED <<i, descriptor, funcVars, parseVars, zodVars, urlVars>>

\* `if (zodType) return typeChecker.typeToString(getTypeArguments(zodType)[2])`
getZodTypeToStringBase ==
    /\ pc = "getZodTypeToString"
    /\ ztype # Undefined
    /\ FirstBaseType(ztype) # Undefined
    /\ \E out \in typeToString(BaseOutput(FirstBaseType(ztype))) :
           IF out = Throw
           THEN /\ thrown' = "CheckerError"
                /\ pc' = "thrown"
                /\ UNCHANGED zresult
           ELSE /\ zresult' = out.text
                /\ pc' = "zodReturn"
                /\ UNCHANGED thrown
    /\ UNCHANGED <<i, descriptor, funcVars, parseVars, zarg, ztype, zstack, zreturn, urlVars>>

\* `return typeChecker.typeToString(zodArguments[4])`
getZodTypeToStringObject ==
    /\ pc = "getZodTypeToString"
    /\ ztype # Undefined
    /\ FirstBaseType(ztype) = Undefined
    /\ ZodDispatch(ztype) = "object"
    /\ \E out \in typeToString(ObjectOutput(ztype)) :
           /\ out # Throw
           /\ zresult' = out.text
    /\ pc' = "zodReturn"
    /\ UNCHANGED <<i, descriptor, thrown, funcVars, parseVars, zarg, ztype, zstack, zreturn,
                   urlVars>>

\* the recursive call of `getZodTypeToString(typeChecker, zodArguments[0]) + "[]"` or
\* of `getZodTypeToString(typeChecker, zodArguments[0])`
getZodTypeToStringRecurse ==
    /\ pc = "getZodTypeToString"
    /\ ztype # Undefined
    /\ FirstBaseType(ztype) = Undefined
    /\ ZodDispatch(ztype) # "object"
    /\ zstack' = <<ZodDispatch(ztype)>> \o zstack
    /\ ztype' = RecursiveArgument(ztype)
    /\ UNCHANGED <<pc, i, descriptor, thrown, funcVars, parseVars, zarg, zresult, zreturn,
                   urlVars>>

\* a recursive call returned to the call that waits for it
getZodTypeToStringReturn ==
    /\ pc = "zodReturn"
    /\ zstack # <<>>
    /\ zresult' = AfterRecursion(Head(zstack), zresult)
    /\ zstack' = Tail(zstack)
    /\ UNCHANGED <<pc, i, descriptor, thrown, funcVars, parseVars, zarg, ztype, zreturn,
                   urlVars>>

\* the outermost call returned
getZodTypeToStringReturned == pc = "zodReturn" /\ zstack = <<>>

----------------------------------------------------------------------------
(* getZodTypeToString on every type of the bounded set *)

\* the caller takes the value
getZodTypeToStringDone ==
    /\ getZodTypeToStringReturned
    /\ zreturn = "caller"
    /\ pc' = "done"
    /\ UNCHANGED <<i, descriptor, thrown, funcVars, parseVars, zodVars, urlVars>>

InitZod ==
    /\ zarg \in Types(MaxDepth)
    /\ ztype = zarg
    /\ zstack = <<>>
    /\ zresult = ""
    /\ zreturn = "caller"
    /\ pc = "getZodTypeToString"
    /\ i = 1
    /\ descriptor = Undefined
    /\ thrown = "none"
    /\ IdleFunc /\ IdleParse /\ IdleUrl

NextZod ==
    \/ getZodTypeToStringThrow
    \/ getZodTypeToStringBase
    \/ getZodTypeToStringObject
    \/ getZodTypeToStringRecurse
    \/ getZodTypeToStringReturn
    \/ getZodTypeToStringDone

SpecZod == InitZod /\ [][NextZod]_vars

----------------------------------------------------------------------------
(* Properties of getZodTypeToString *)

DeclaresBaseType(type) ==
    /\ type.baseTypes # Undefined
    /\ type.baseTypes.items # <<>>

FirstArgument(type) ==
    IF type.typeArguments = <<>> THEN Undefined ELSE type.typeArguments[1]

\* The results the dispatch of C6 allows for a type, as strings or Throw.  Where the
\* dispatch leads to a call on an absent first argument, that call raises.
RECURSIVE Unwrapped(_)
Unwrapped(type) ==
    IF type = Undefined THEN {Throw}
    ELSE IF DeclaresBaseType(type)
    THEN LET base == type.baseTypes.items[1]
         IN IF Len(base.typeArguments) >= 3
            THEN {Str(base.typeArguments[3].text)}
            ELSE typeToString(Undefined)
    ELSE IF Len(type.typeArguments) = 5
    THEN {Str(type.typeArguments[5].text)}
    ELSE IF Len(type.typeArguments) = 2
    THEN {IF r = Throw THEN Throw ELSE Str(r.text \o "[]") : r \in Unwrapped(FirstArgument(type))}
    ELSE Unwrapped(FirstArgument(type))

\* C6: getZodTypeToString gives the text of the third type argument of the first base
\* type when the type declares one; otherwise the text of the 5th type argument when
\* there are exactly 5, getZodTypeToString(first argument) followed by "[]" when there
\* are exactly 2, and getZodTypeToString(first argument) for any other number.
C6_Dispatch ==
    /\ (Done /\ zreturn = "caller") => Str(zresult) \in Unwrapped(zarg)
    /\ (pc = "thrown" /\ zreturn = "caller") => Throw \in Unwrapped(zarg)

C6_Witness ==
    /\ Done
    /\ zreturn = "caller"
    /\ ~DeclaresBaseType(zarg)
    /\ Len(zarg.typeArguments) = 2
    /\ Len(zarg.typeArguments[1].typeArguments) = 2
    /\ zresult = "string[][]"

\* C7: getZodTypeToString ends with a string on every finite type and raises no fault
\* of its own, whatever the base types and the number of type arguments (a fault the
\* checker raises when handed an absent type is not counted here).
C7_NeverRaises == ~(pc = "thrown" /\ thrown = "TypeError")

----------------------------------------------------------------------------
(* parseSchema *)

Null == [kind |-> "null"]

\* Array.prototype.join on an array of strings
RECURSIVE Join(_, _)
Join(strings, separator) ==
    IF strings = <<>> THEN ""
    ELSE IF Len(strings) = 1 THEN Head(strings)
    ELSE Head(strings) \o separator \o Join(Tail(strings), separator)

PropertyNames == {"name", "searchParams", "id"}

\* the types of the schema's properties: the flat types, an array of strings, an
\* optional string
PropertyTypes ==
    FlatTypes \cup {Reference(ArrayArity, StringSchema, "T2"), Reference(1, StringSchema, "T1")}

Symbols == {[name |-> n, type |-> t] : n \in PropertyNames, t \in PropertyTypes}

\* the property lists of an object type: no name twice
PropertyLists(most) ==
    UNION {{ps \in [1..n -> Symbols] :
               \A a, b \in 1..n : ps[a].name = ps[b].name => a = b} : n \in 0..most}

\* typeChecker.getPropertiesOfType(zodInputType)
getPropertiesOfType(type) == IF type = Undefined THEN <<>> ELSE properties

\* zodInputType?.getProperty(name)
getProperty(type, name) ==
    IF type # Undefined /\ \E k \in DOMAIN properties : properties[k].name = name
    THEN properties[CHOOSE k \in DOMAIN properties : properties[k].name = name]
    ELSE Undefined

\* typeChecker.getTypeOfSymbol(symbol)
getTypeOfSymbol(symbol) == symbol.type

\* `data.schema ? typeChecker.getTypeAtLocation(data.schema) : undefined`
ZodInputTypeOf(data) ==
    IF data.schema # Undefined THEN getTypeAtLocation(data.schema) ELSE Undefined

\* IsReserved reserving nothing
IsReservedNever(property) == FALSE

\* the properties the .map() callback does not unwrap: it returns null for them
IsReserved(property) == property.name = "searchParams"

\* what the .map() callback returns once the property's type is unwrapped
MapEntry(property, outputType) ==
    IF outputType = "" THEN Null ELSE Str(property.name \o ": " \o outputType)

\* `{ ${ ... .filter((t) => t !== null).join("; ")} }`
RenderBody(results) ==
    LET kept == SelectSeq(results, LAMBDA t : t # Null)
    IN Str("{ " \o Join([k \in DOMAIN kept |-> kept[k].text], "; ") \o " }")

\* `searchParamsType.getFlags() & ts.TypeFlags.Object`
IsObjectType(type) == type.isObject

\* ReturnedBody without the test of the empty record
ReturnedBodyAlways(value) == value

\* `body != "{  }" ? body : undefined`
ReturnedBody(value) == IF value # Str("{  }") THEN value ELSE Undefined

\* `if (data.returnType) returnType = typeChecker.typeToString(data.returnType)`
ReturnTypeText(data) ==
    IF data.returnType # Undefined THEN Str(TextOf(data.returnType)) ELSE Undefined

\* line 82, and the test `skipBody || !zodInputType` of `const body`
parseSchemaStart ==
    /\ pc = "parseSchema"
    /\ zodInputType' = ZodInputTypeOf(descriptor)
    /\ IF skipBody \/ zodInputType' = Undefined
       THEN pc' = "searchParams"
       ELSE pc' = "mapProperties"
    /\ i' = 1
    /\ mapped' = <<>>
    /\ body' = Undefined
    /\ UNCHANGED <<descriptor, thrown, funcVars, skipBody, properties, searchParams, parsed,
                   zodVars, urlVars>>

\* the .map() callback on a reserved property
parseSchemaMapReserved ==
    /\ pc = "mapProperties"
    /\ i <= Len(getPropertiesOfType(zodInputType))
    /\ IsReserved(getPropertiesOfType(zodInputType)[i])
    /\ mapped' = Append(mapped, Null)
    /\ i' = i + 1
    /\ UNCHANGED <<pc, descriptor, thrown, funcVars, skipBody, properties, zodInputType, body,
                   searchParams, parsed, zodVars, urlVars>>

\* the .map() callback on another property calls getZodTypeToString
parseSchemaMapCall ==
    /\ pc = "mapProperties"
    /\ i <= Len(getPropertiesOfType(zodInputType))
    /\ ~IsReserved(getPropertiesOfType(zodInputType)[i])
    /\ zarg' = getTypeOfSymbol(getPropertiesOfType(zodInputType)[i])
    /\ ztype' = zarg'
    /\ zstack' = <<>>
    /\ zreturn' = "mapProperties"
    /\ pc' = "getZodTypeToString"
    /\ UNCHANGED <<i, descriptor, thrown, funcVars, parseVars, zresult, urlVars>>

\* getZodTypeToString returned to the .map() callback
parseSchemaMapReturn ==
    /\ getZodTypeToStringReturned
    /\ zreturn = "mapProperties"
    /\ mapped' = Append(mapped, MapEntry(getPropertiesOfType(zodInputType)[i], zresult))
    /\ i' = i + 1
    /\ pc' = "mapProperties"
    /\ UNCHANGED <<descriptor, thrown, funcVars, skipBody, properties, zodInputType, body,
                   searchParams, parsed, zodVars, urlVars>>

\* .map() is over: filter, join, and the braces
parseSchemaJoin ==
    /\ pc = "mapProperties"
    /\ i > Len(getPropertiesOfType(zodInputType))
    /\ body' = RenderBody(mapped)
    /\ pc' = "searchParams"
    /\ UNCHANGED <<i, descriptor, thrown, funcVars, skipBody, properties, zodInputType,
                   mapped, searchParams, parsed, zodVars, urlVars>>

\* whether lines 102-107 reach the call of getZodTypeToString
UnwrapsSearchParams ==
    /\ getProperty(zodInputType, "searchParams") # Undefined
    /\ IsObjectType(getTypeOfSymbol(getProperty(zodInputType, "searchParams")))

\* no searchParams property, or one whose type is not an object type
parseSchemaNoSearchParams ==
    /\ pc = "searchParams"
    /\ ~UnwrapsSearchParams
    /\ searchParams' = Undefined
    /\ pc' = "return"
    /\ UNCHANGED <<i, descriptor, thrown, funcVars, skipBody, properties, zodInputType,
                   mapped, body, parsed, zodVars, urlVars>>

\* `searchParams = getZodTypeToString(typeChecker, searchParamsType)`: the call
parseSchemaSearchParamsCall ==
    /\ pc = "searchParams"
    /\ UnwrapsSearchParams
    /\ zarg' = getTypeOfSymbol(getProperty(zodInputType, "searchParams"))
    /\ ztype' = zarg'
    /\ zstack' = <<>>
    /\ zreturn' = "searchParams"
    /\ pc' = "getZodTypeToString"
    /\ UNCHANGED <<i, descriptor, thrown, funcVars, parseVars, zresult, urlVars>>

\* `searchParams = getZodTypeToString(typeChecker, searchParamsType)`: the assignment
parseSchemaSearchParamsReturn ==
    /\ getZodTypeToStringReturned
    /\ zreturn = "searchParams"
    /\ searchParams' = Str(zresult)
    /\ pc' = "return"
    /\ UNCHANGED <<i, descriptor, thrown, funcVars, skipBody, properties, zodInputType,
                   mapped, body, parsed, zodVars, urlVars>>

\* lines 112-117
parseSchemaReturn ==
    /\ pc = "return"
    /\ parsed' = [body |-> ReturnedBody(body),
                  searchParams |-> searchParams,
                  returnType |-> ReturnTypeText(descriptor)]
    /\ pc' = "done"
    /\ UNCHANGED <<i, descriptor, thrown, funcVars, skipBody, properties, zodInputType,
                   mapped, body, searchParams, zodVars, urlVars>>

----------------------------------------------------------------------------
(* parseSchema on every descriptor getSchemaFromFunction can return and     *)
(* every schema type of the bounded set                                     *)

Descriptors ==
    {[schema |-> sc, returnType |-> rt] :
        sc \in {Undefined, [kind |-> "Identifier", pos |-> <<1, 1, 2>>]},
        rt \in {getAnyType, getVoidType,
                getTypeAtLocation([kind |-> "Identifier", pos |-> <<2, 1, 1>>])}}

InitParse ==
    /\ descriptor \in Descriptors
    /\ skipBody \in BOOLEAN
    /\ properties \in (IF descriptor.schema = Undefined THEN {<<>>} ELSE PropertyLists(MaxProps))
    /\ zodInputType = Undefined
    /\ mapped = <<>>
    /\ body = Undefined
    /\ searchParams = Undefined
    /\ parsed = Undefined
    /\ pc = "parseSchema"
    /\ i = 1
    /\ thrown = "none"
    /\ IdleFunc /\ IdleZod /\ IdleUrl

NextParse ==
    \/ parseSchemaStart
    \/ parseSchemaMapReserved
    \/ parseSchemaMapCall
    \/ parseSchemaMapReturn
    \/ parseSchemaJoin
    \/ parseSchemaNoSearchParams
    \/ parseSchemaSearchParamsCall
    \/ parseSchemaSearchParamsReturn
    \/ parseSchemaReturn
    \/ getZodTypeToStringThrow
    \/ getZodTypeToStringBase
    \/ getZodTypeToStringObject
    \/ getZodTypeToStringRecurse
    \/ getZodTypeToStringReturn

SpecParse == InitParse /\ [][NextParse]_vars

----------------------------------------------------------------------------
(* Properties of parseSchema *)

Returned == pc = "done" /\ parsed # Undefined

HasSchema == descriptor.schema # Undefined

\* the text getZodTypeToString gives for a type it does not raise on
OutputText(type) == (CHOOSE r \in Unwrapped(type) : r # Throw).text

OtherProperties == SelectSeq(properties, LAMBDA q : q.name # "searchParams")

\* the other properties whose unwrapped type is not the empty string
RecoveredProperties ==
    SelectSeq(OtherProperties,
              LAMBDA q : \E r \in Unwrapped(q.type) : r # Throw /\ r.text # "")

\* "{ name: type; name: type }" for a list of properties
RecordOf(list) ==
    Str("{ " \o Join([k \in DOMAIN list |-> list[k].name \o ": " \o OutputText(list[k].type)],
                     "; ") \o " }")

SearchParamsProperties == SelectSeq(properties, LAMBDA q : q.name = "searchParams")

\* searchParams is the unwrapped type of the searchParams property when the schema has
\* one whose type is an object type, and absent otherwise
SearchParamsRouted ==
    parsed.searchParams =
        IF SearchParamsProperties # <<>> /\ SearchParamsProperties[1].type.isObject
        THEN Str(OutputText(SearchParamsProperties[1].type))
        ELSE Undefined

NoReservedEntry ==
    \A k \in DOMAIN mapped : properties[k].name = "searchParams" => mapped[k] = Null

\* C4 as stated: with skipBody false, body is the brace-delimited list of all the other
\* properties, and searchParams goes to the searchParams output only.
C4_AsStated ==
    (Returned /\ HasSchema /\ ~skipBody)
        => /\ parsed.body = RecordOf(OtherProperties)
           /\ NoReservedEntry
           /\ SearchParamsRouted

\* C4 amended: with skipBody false, body is the brace-delimited `name: type` list of the
\* other properties whose unwrapped type is not empty, in property order and joined by
\* "; ", and is absent when there is no such property; it never holds an entry named
\* searchParams.  searchParams is getZodTypeToString of the searchParams property's
\* type when the property exists with an object type, and absent otherwise.
\* parseSchema ends without a result only by the fault getZodTypeToString raises on
\* the type of one of the properties it unwraps.
C4_Routing ==
    /\ (Returned /\ HasSchema /\ ~skipBody)
           => /\ parsed.body = IF RecoveredProperties = <<>> THEN Undefined
                               ELSE RecordOf(RecoveredProperties)
              /\ NoReservedEntry
              /\ SearchParamsRouted
    /\ (pc = "thrown" /\ zreturn = "mapProperties")
           => /\ properties[i].name # "searchParams"
              /\ Throw \in Unwrapped(properties[i].type)
    /\ (pc = "thrown" /\ zreturn = "searchParams")
           => /\ SearchParamsProperties[1].type.isObject
              /\ Throw \in Unwrapped(SearchParamsProperties[1].type)

C4_Witness ==
    /\ Returned
    /\ HasSchema
    /\ ~skipBody
    /\ Len(properties) = 2
    /\ properties[2].name = "searchParams"
    /\ parsed.body = Str("{ name: string }")
    /\ parsed.searchParams = Str("string")

\* C5: in the result of parseSchema, body is absent when skipBody is true, when the
\* descriptor has no schema node, and when no property other than searchParams yields
\* a non-empty unwrapped type; otherwise body is a present, non-empty record-type
\* string.
C5_BodyAbsence ==
    Returned =>
        IF skipBody \/ ~HasSchema \/ RecoveredProperties = <<>>
        THEN parsed.body = Undefined
        ELSE /\ parsed.body # Undefined
             /\ parsed.body.kind = "string"
             /\ parsed.body.text \notin {"", "{  }"}
             /\ parsed.body = RecordOf(RecoveredProperties)

C5_Witness ==
    /\ Returned
    /\ HasSchema
    /\ ~skipBody
    /\ OtherProperties # <<>>
    /\ RecoveredProperties = <<>>
    /\ body = Str("{  }")
    /\ parsed.body = Undefined

----------------------------------------------------------------------------
(* generateUrlType *)

FieldNames == {"a", "b", "c", "d"}

\* a field's value: undefined, the empty string, a type text
FieldTypes == {Undefined, Str(""), Str("string")}

FieldEntries == {[name |-> n, type |-> t] : n \in FieldNames, t \in FieldTypes}

\* Object.entries(fields): no key twice
FieldLists(most) ==
    UNION {{fs \in [1..n -> FieldEntries] :
               \A a, b \in 1..n : fs[a].name = fs[b].name => a = b} : n \in 0..most}

\* IsKept testing truthiness: the empty string is dropped too
IsKeptTruthy(entry) == entry.type # Undefined /\ entry.type.text # ""

\* the filter's test: `type !== undefined`
IsKept(entry) == entry.type # Undefined

\* the map's callback: `${name}: ${type}`
RenderEntry(entry) == entry.name \o ": " \o entry.type.text

\* `const entries = Object.entries(fields).filter(...)`
generateUrlTypeFilter ==
    /\ pc = "generateUrlType"
    /\ entries' = SelectSeq(fields, IsKept)
    /\ pc' = "filtered"
    /\ UNCHANGED <<i, descriptor, thrown, funcVars, parseVars, zodVars, fields, urlType>>

\* `if (entries.length === 0) return "never"`
generateUrlTypeNever ==
    /\ pc = "filtered"
    /\ Len(entries) = 0
    /\ urlType' = Str("never")
    /\ pc' = "done"
    /\ UNCHANGED <<i, descriptor, thrown, funcVars, parseVars, zodVars, fields, entries>>

\* the template of line 7
generateUrlTypeRender ==
    /\ pc = "filtered"
    /\ Len(entries) # 0
    /\ urlType' = Str("{ " \o Join([k \in DOMAIN entries |-> RenderEntry(entries[k])],
                                   "; ") \o " }")
    /\ pc' = "done"
    /\ UNCHANGED <<i, descriptor, thrown, funcVars, parseVars, zodVars, fields, entries>>

----------------------------------------------------------------------------
(* generateUrlType on every field mapping of the bounded set *)

InitUrl ==
    /\ fields \in FieldLists(MaxFields)
    /\ entries = <<>>
    /\ urlType = Undefined
    /\ pc = "generateUrlType"
    /\ i = 1
    /\ descriptor = Undefined
    /\ thrown = "none"
    /\ IdleFunc /\ IdleParse /\ IdleZod

NextUrl ==
    \/ generateUrlTypeFilter
    \/ generateUrlTypeNever
    \/ generateUrlTypeRender

SpecUrl == InitUrl /\ [][NextUrl]_vars

----------------------------------------------------------------------------
(* Properties of generateUrlType *)

\* the `name: type` pairs of the fields that have a value, in order, "; " between them
RECURSIVE DefinedPairs(_)
DefinedPairs(list) ==
    IF list = <<>> THEN ""
    ELSE IF Head(list).type = Undefined THEN DefinedPairs(Tail(list))
    ELSE Head(list).name \o ": " \o Head(list).type.text
             \o (IF \E k \in DOMAIN Tail(list) : Tail(list)[k].type # Undefined
                 THEN "; " \o DefinedPairs(Tail(list))
                 ELSE "")

\* C8: generateUrlType returns "never" when no field has a defined value, and otherwise
\* "{ " + the `name: type` pairs of exactly the fields with a defined value, in input
\* order, joined by "; " + " }".
C8_UrlType ==
    Done =>
        urlType = IF \A k \in DOMAIN fields : fields[k].type = Undefined
                  THEN Str("never")
                  ELSE Str("{ " \o DefinedPairs(fields) \o " }")

C8_Witness ==
    /\ Done
    /\ Len(fields) = 3
    /\ fields[2].type = Undefined
    /\ urlType = Str("{ b: string; a:  }")

====
